---- MODULE Spec2Model ----
(***************************************************************************)
(* Live-call synchronisation service (backend/src/services/liveCallsSocket) *)
(* modelled as a state machine: Socket.IO connection / disconnect /         *)
(* refresh handlers, the setInterval poll timer, and the asynchronous       *)
(* continuations of sendLiveCallsToClient and fetchAndBroadcastLiveCalls    *)
(* that run once elevenLabsService.getConversations() has resolved.         *)
(*                                                                         *)
(* Node runs every handler and every continuation to its next await        *)
(* without interleaving, so one action is one handler or one continuation. *)
(* The only await is the one on getConversations().                        *)
(***************************************************************************)
EXTENDS Integers, Sequences, FiniteSets, Bags, TLC

(***************************************************************************)
(* Bounds of the model.                                                    *)
(***************************************************************************)
MaxSockets == 2      \* sockets accepted during one run
MaxInflight == 2     \* async calls suspended at their await at one time

(***************************************************************************)
(* Program constants.                                                      *)
(***************************************************************************)
MAX_CALL_DURATION_MS == 15 * 60 * 1000
ClockStart == 1000000   \* the earliest reading of Date.now(), in ms
ClockStep == 2000       \* a polling period (pollingFrequency), in ms
NoTimer == 0            \* pollInterval === null
NoSocket == 0           \* a poll cycle that io.emit()s has no socket of its own

ActiveStatuses == {"in_progress", "active", "ongoing", "in-progress", "initiated"}
EndedStatuses == {"done", "completed", "failed", "cancelled", "terminated",
                  "ended", "disconnected", "hung_up", "finished", "closed"}

(***************************************************************************)
(* Sequence helpers (Array.prototype.find, new Set(calls.map(c => c.id))).  *)
(***************************************************************************)
\* index of the first element of calls whose id is id, 0 when there is none
FindIndexById(calls, id) ==
    IF \E i \in 1..Len(calls) : calls[i].id = id
    THEN CHOOSE i \in 1..Len(calls) :
            /\ calls[i].id = id
            /\ \A j \in 1..(i - 1) : calls[j].id # id
    ELSE 0

IdsOf(calls) == {calls[i].id : i \in 1..Len(calls)}

(***************************************************************************)
(* fetchLiveCalls, after getConversations() has resolved successfully.     *)
(* An absent or empty upstream field is 0 or "" (both falsy in JS, as the  *)
(* absent field is).  now is Date.now() of line 144, dateNow the value of  *)
(* new Date() of line 191.                                                 *)
(***************************************************************************)
IsActive(conv) == conv.status \in ActiveStatuses

IsEnded(conv) == conv.status \in EndedStatuses

ShouldShow(conv) == IsActive(conv) /\ ~IsEnded(conv)

PhoneNumberOf(conv) ==
    IF conv.caller_number # "" THEN conv.caller_number
    ELSE IF conv.external_number # "" THEN conv.external_number
    ELSE "Unknown"

StartTimeUnixOf(conv) ==
    IF conv.start_time_unix_secs # 0 THEN conv.start_time_unix_secs
    ELSE conv.metadata_start_time_unix_secs

StartTimeOf(conv, dateNow) ==
    IF StartTimeUnixOf(conv) # 0 THEN StartTimeUnixOf(conv) * 1000 ELSE dateNow

\* Math.floor((now - startTime.getTime()) / 1000); \div rounds down
DurationOf(startTime, now) == (now - startTime) \div 1000

MapConversation(conv, now, dateNow) ==
    [id |-> conv.conversation_id,
     agentId |-> conv.agent_id,
     agentName |-> IF conv.agent_name # "" THEN conv.agent_name ELSE "AI Agent",
     phoneNumber |-> PhoneNumberOf(conv),
     status |-> conv.status,
     duration |-> DurationOf(StartTimeOf(conv, dateNow), now),
     startTime |-> StartTimeOf(conv, dateNow)]

\* a stale filter that also drops a call of exactly the maximum age
IsStaleAtLimit(call, now) == now - call.startTime >= MAX_CALL_DURATION_MS

IsStale(call, now) == now - call.startTime > MAX_CALL_DURATION_MS

FetchLiveCalls(conversations, now, dateNow) ==
    LET active == SelectSeq(conversations, ShouldShow)
        mapped == [i \in 1..Len(active) |-> MapConversation(active[i], now, dateNow)]
        fresh == {i \in 1..Len(mapped) : ~IsStale(mapped[i], now)}
        Rank(i) == Cardinality({j \in fresh : j <= i})
    IN [k \in 1..Cardinality(fresh) |->
            mapped[CHOOSE i \in fresh : Rank(i) = k]]

(***************************************************************************)
(* hasDataChanged(newCalls), with this.previousLiveCalls as prev.          *)
(***************************************************************************)
HasDataChanged(prev, newCalls) ==
    IF Len(newCalls) # Len(prev) THEN TRUE
    ELSE IF Cardinality(IdsOf(newCalls)) # Cardinality(IdsOf(prev)) THEN TRUE
    ELSE IF \E id \in IdsOf(newCalls) : id \notin IdsOf(prev) THEN TRUE
    ELSE \E i \in 1..Len(newCalls) :
            LET p == FindIndexById(prev, newCalls[i].id)
            IN p # 0 /\ prev[p].status # newCalls[i].status

(***************************************************************************)
(* The upstream conversation source.  The provider's list is one of two    *)
(* lists; it changes at any time, independently of the server.  In the     *)
(* first, call c1 is being set up and c0 has ended.  In the second, c1 is  *)
(* in progress and is reported with a start time that is within            *)
(* MAX_CALL_DURATION_MS at the first clock reading and beyond it at the    *)
(* second, where the snapshot is empty.                                    *)
(***************************************************************************)
Conv(id, status, startSecs) ==
    [conversation_id |-> id,
     agent_id |-> "agent_1",
     agent_name |-> "",
     status |-> status,
     start_time_unix_secs |-> startSecs,
     metadata_start_time_unix_secs |-> 0,
     caller_number |-> "",
     external_number |-> "+919876543210"]

UpstreamLists ==
    { <<Conv("c1", "initiated", 990), Conv("c0", "done", 980)>>,
      <<Conv("c1", "in_progress", 101)>> }

Sockets == 1..MaxSockets

\* what getConversations() resolves to
Failure == [success |-> FALSE, conversations |-> << >>]

Success(conversations) == [success |-> TRUE, conversations |-> conversations]

Update(liveCalls) == [event |-> "live-calls-update", payload |-> liveCalls]

Error == [event |-> "live-calls-error", payload |-> << >>]

NoEvent == [event |-> "none", payload |-> << >>]

\* no socket is emitted to
Nothing == [s \in Sockets |-> NoEvent]

(***************************************************************************)
(* An async call suspended at its await.  fn is the async method, origin   *)
(* its caller: the connection handler, the poll scheduler (startPolling's  *)
(* immediate call and the setInterval callback) or the refresh handler.    *)
(***************************************************************************)
Call(fn, origin, s) ==
    [fn |-> fn, origin |-> origin, socket |-> s,
     phase |-> "awaiting", result |-> Failure]

\* Date.now() is the wall clock; it reads one of these values, a polling
\* period apart, and no order between two readings is assumed
ClockReadings == {ClockStart, ClockStart + ClockStep}

\* the continuation of call c running with Date.now() = clock
Resumption(c, clock) == [call |-> c, now |-> clock]

\* no continuation ran
NoResumption == Resumption(Call("none", "none", NoSocket), ClockStart)

(***************************************************************************)
(* liveCallsService.getLiveCalls() of the legacy client, lines 294-378 of  *)
(* api.ts, on the list its request returned.                               *)
(***************************************************************************)
ClientEndedStatuses == {"done", "completed", "failed", "cancelled", "terminated"}

\* a client filter that takes initiated for an ended status
ClientShouldShowNotInitiated(conv) ==
    IsActive(conv) /\ conv.status \notin ClientEndedStatuses \cup {"initiated"}

ClientShouldShow(conv) ==
    IsActive(conv) /\ conv.status \notin ClientEndedStatuses

ClientMapConversation(conv, now, dateNow) ==
    [id |-> conv.conversation_id,
     conversationId |-> conv.conversation_id,
     agentId |-> conv.agent_id,
     agentName |-> IF conv.agent_name # "" THEN conv.agent_name ELSE "AI Agent",
     phoneNumber |-> PhoneNumberOf(conv),
     status |-> "connected",
     duration |-> DurationOf(StartTimeOf(conv, dateNow), now),
     startTime |-> StartTimeOf(conv, dateNow)]

GetLiveCalls(conversations, now, dateNow) ==
    LET active == SelectSeq(conversations, ClientShouldShow)
        mapped == [i \in 1..Len(active) |->
                      ClientMapConversation(active[i], now, dateNow)]
        fresh == {i \in 1..Len(mapped) : ~IsStale(mapped[i], now)}
        Rank(i) == Cardinality({j \in fresh : j <= i})
    IN [k \in 1..Cardinality(fresh) |->
            mapped[CHOOSE i \in fresh : Rank(i) = k]]

(***************************************************************************)
(* elevenLabsService.getConversations(): the try returns success with      *)
(* response.data.conversations || [], the catch returns success: false.    *)
(***************************************************************************)
\* the HTTP request threw
HttpThrew ==
    [threw |-> TRUE, hasConversations |-> FALSE, conversations |-> << >>]

\* the HTTP request answered, its body carrying a conversations array
HttpOk(conversations) ==
    [threw |-> FALSE, hasConversations |-> TRUE,
     conversations |-> conversations]

\* the HTTP request answered, its body carrying no conversations field
HttpOkNoList ==
    [threw |-> FALSE, hasConversations |-> FALSE, conversations |-> << >>]

GetConversationsResult(response) ==
    IF response.threw THEN Failure
    ELSE Success(IF response.hasConversations THEN response.conversations
                 ELSE << >>)

(***************************************************************************)
(* fetchLiveCalls() as its caller sees it: lines 137-139 throw when the    *)
(* result is not a success, the catch of lines 218-221 rethrows, and       *)
(* otherwise line 217 returns the snapshot.                                *)
(***************************************************************************)
Raised == [raised |-> TRUE, liveCalls |-> << >>]

Returned(liveCalls) == [raised |-> FALSE, liveCalls |-> liveCalls]

\* a fetchLiveCalls that answers a failed fetch with an empty snapshot
FetchLiveCallsOutcomeSwallows(result, now, dateNow) ==
    Returned(FetchLiveCalls(result.conversations, now, dateNow))

FetchLiveCallsOutcome(result, now, dateNow) ==
    IF ~result.success THEN Raised
    ELSE Returned(FetchLiveCalls(result.conversations, now, dateNow))

\* useState<string | null>(null)
NoError == "null"

\* a handler of the hook, or its refresh(), run with argument arg
Handled(handler, arg) == [handler |-> handler, arg |-> arg]

VARIABLES
    connectedClients,   \* this.connectedClients
    pollInterval,       \* this.pollInterval: a timer id, or NoTimer
    previousLiveCalls,  \* this.previousLiveCalls
    timers,             \* the runtime's armed setInterval timers
    connected,          \* sockets Socket.IO holds as connected
    accepted,           \* number of sockets accepted so far
    inflight,           \* bag of async calls suspended at await getConversations()
    emitted,            \* per socket, the event the last step emitted to it
    resumed,            \* the continuation the last step ran, if it ran one
    upstream,           \* the provider's current conversation list
    \* one call of fetchLiveCalls(), followed step by step
    httpResponse,       \* what the provider's HTTP request produced
    conversationsResult,\* what getConversations() resolved to (line 135)
    nowRead,            \* Date.now() of line 144
    dateRead,           \* new Date() of line 191
    outcome,            \* fetchLiveCalls(): the snapshot returned, or raised
    hasChanged,         \* hasDataChanged(liveCalls) of line 116
    pc,                 \* where the call stands
    legacyResult,       \* liveCallsService.getLiveCalls() on the same list
    \* the state of one useLiveCallsWebSocket hook and of its socket
    clientLiveCalls,    \* useState liveCalls
    isConnected,        \* useState isConnected
    isLoading,          \* useState isLoading
    error,              \* useState error
    socketConnected,    \* socketRef.current.connected
    clientSent,         \* the event the last step sent to the server
    handled,            \* the handler or function of the hook the last step ran
    \* one call of a pure function: its argument and what it returned
    pageInput,          \* generatePageNumbers: currentPage and totalPages
    pageResult,         \* generatePageNumbers: the pages returned
    phoneInput,         \* initiateCall: toNumber
    phoneResult,        \* initiateCall: formattedNumber, or the error thrown
    \* what the clients of the service have seen of it
    clients,            \* per socket, the state of the hook at its other end
    lastBroadcast,      \* the most recent io.emit('live-calls-update', ...)
    quiet               \* no client event, upstream change or failure from now on

serverVars == <<connectedClients, pollInterval, previousLiveCalls, timers,
                connected, accepted, inflight, emitted, resumed, upstream>>

fetchVars == <<httpResponse, conversationsResult, nowRead, dateRead, outcome,
               hasChanged, pc, legacyResult>>

hookVars == <<clientLiveCalls, isConnected, isLoading, error, socketConnected,
              clientSent, handled>>

pureVars == <<pageInput, pageResult, phoneInput, phoneResult>>

trackVars == <<clients, lastBroadcast, quiet>>

vars == <<serverVars, fetchVars, hookVars, pureVars, trackVars>>

\* the result slot of a function that has not returned
NotReturned == [returned |-> FALSE, threw |-> FALSE, value |-> << >>]

\* what a function returned
ReturnedValue(value) == [returned |-> TRUE, threw |-> FALSE, value |-> value]

\* the function threw
Threw == [returned |-> TRUE, threw |-> TRUE, value |-> << >>]

\* no call of a pure function is being followed
PureIdle ==
    /\ pageInput = [currentPage |-> 1, totalPages |-> 1]
    /\ pageResult = NotReturned
    /\ phoneInput = << >>
    /\ phoneResult = NotReturned

\* the hook at the other end of a socket, as far as the service's events
\* set it: liveCalls and error as useState initialises them, whether a
\* live-calls-update has arrived, and the caller of the service whose
\* live-calls-error set error
NoClient ==
    [liveCalls |-> << >>, error |-> NoError, gotUpdate |-> FALSE,
     errorFrom |-> "none"]

\* no live-calls-update has been broadcast
NoBroadcast == [sent |-> FALSE, payload |-> << >>, version |-> 0]

\* the clients of the service are not followed
TrackIdle ==
    /\ clients = [s \in Sockets |-> NoClient]
    /\ lastBroadcast = NoBroadcast
    /\ quiet = FALSE

\* no call of fetchLiveCalls() is being followed
FetchIdle ==
    /\ httpResponse = HttpThrew
    /\ conversationsResult = Failure
    /\ nowRead = ClockStart
    /\ dateRead = ClockStart
    /\ outcome = Raised
    /\ hasChanged = FALSE
    /\ pc = "idle"
    /\ legacyResult = NotReturned

\* the hook as useState initialises it, its socket not yet connected
HookIdle ==
    /\ clientLiveCalls = << >>
    /\ isConnected = FALSE
    /\ isLoading = TRUE
    /\ error = NoError
    /\ socketConnected = FALSE
    /\ clientSent = "none"
    /\ handled = Handled("none", << >>)

Init ==
    /\ connectedClients = 0
    /\ pollInterval = NoTimer
    /\ previousLiveCalls = << >>
    /\ timers = {}
    /\ connected = {}
    /\ accepted = 0
    /\ inflight = EmptyBag
    /\ emitted = Nothing
    /\ resumed = NoResumption
    /\ upstream \in UpstreamLists
    /\ FetchIdle
    /\ HookIdle
    /\ PureIdle
    /\ TrackIdle

(***************************************************************************)
(* socket.emit(...) and io.emit(...), as the per-socket events of one      *)
(* step.  io.emit emits to the sockets that are connected when it is       *)
(* called; socket.emit is recorded for its socket whether or not the       *)
(* transport still delivers to it.                                         *)
(***************************************************************************)
SocketEmit(s, msg) == [Nothing EXCEPT ![s] = msg]

IoEmit(conn, msg) == [s \in Sockets |-> IF s \in conn THEN msg ELSE NoEvent]

(***************************************************************************)
(* startPolling() and stopPolling(), as functions of (pollInterval,        *)
(* timers).  fetch tells whether startPolling made its immediate call of   *)
(* fetchAndBroadcastLiveCalls.                                             *)
(***************************************************************************)
NewTimer(tm) == CHOOSE id \in 1..(Cardinality(tm) + 1) : id \notin tm

\* startPolling without the early return of lines 83-85
StartPollingRearms(pi, tm) ==
    [pollInterval |-> NewTimer(tm), timers |-> tm \cup {NewTimer(tm)},
     fetch |-> TRUE]

StartPolling(pi, tm) ==
    IF pi # NoTimer
    THEN [pollInterval |-> pi, timers |-> tm, fetch |-> FALSE]
    ELSE [pollInterval |-> NewTimer(tm), timers |-> tm \cup {NewTimer(tm)},
          fetch |-> TRUE]

\* stopPolling that clears the timer but keeps the handle in pollInterval
StopPollingKeepsHandle(pi, tm) ==
    [pollInterval |-> pi, timers |-> tm \ {pi}]

\* stopPolling that forgets the handle without clearInterval
StopPollingLeaksTimer(pi, tm) ==
    [pollInterval |-> NoTimer, timers |-> tm]

StopPolling(pi, tm) ==
    IF pi # NoTimer
    THEN [pollInterval |-> NoTimer, timers |-> tm \ {pi}]
    ELSE [pollInterval |-> pi, timers |-> tm]

(***************************************************************************)
(* io.on('connection', ...): lines 34-62.                                  *)
(***************************************************************************)
Connection(s) ==
    /\ s = accepted + 1
    /\ s \in Sockets
    /\ LET count == connectedClients + 1
           sp == IF count = 1 THEN StartPolling(pollInterval, timers)
                 ELSE [pollInterval |-> pollInterval, timers |-> timers,
                       fetch |-> FALSE]
           send == Call("sendLiveCallsToClient", "connection", s)
           poll == Call("fetchAndBroadcastLiveCalls", "scheduler", NoSocket)
           started == IF sp.fetch THEN {send, poll} ELSE {send}
       IN /\ BagCardinality(inflight) + Cardinality(started) <= MaxInflight
          /\ connectedClients' = count
          /\ pollInterval' = sp.pollInterval
          /\ timers' = sp.timers
          /\ inflight' = inflight (+) SetToBag(started)
    /\ connected' = connected \cup {s}
    /\ accepted' = s
    /\ emitted' = Nothing
    /\ resumed' = NoResumption
    /\ UNCHANGED <<previousLiveCalls, upstream>>
    /\ UNCHANGED <<fetchVars, hookVars, pureVars>>

\* a disconnect handler that stops polling but forgets the decrement
DisconnectNoDecrement(s) ==
    /\ s \in connected
    /\ LET count == connectedClients
           sp == IF count = 1 THEN StopPolling(pollInterval, timers)
                 ELSE [pollInterval |-> pollInterval, timers |-> timers]
       IN /\ connectedClients' = count
          /\ pollInterval' = sp.pollInterval
          /\ timers' = sp.timers
    /\ connected' = connected \ {s}
    /\ emitted' = Nothing
    /\ resumed' = NoResumption
    /\ UNCHANGED <<previousLiveCalls, accepted, inflight, upstream>>
    /\ UNCHANGED <<fetchVars, hookVars, pureVars>>

(***************************************************************************)
(* socket.on('disconnect', ...): lines 42-50.                              *)
(***************************************************************************)
Disconnect(s) ==
    /\ s \in connected
    /\ LET count == connectedClients - 1
           sp == IF count = 0 THEN StopPolling(pollInterval, timers)
                 ELSE [pollInterval |-> pollInterval, timers |-> timers]
       IN /\ connectedClients' = count
          /\ pollInterval' = sp.pollInterval
          /\ timers' = sp.timers
    /\ connected' = connected \ {s}
    /\ emitted' = Nothing
    /\ resumed' = NoResumption
    /\ UNCHANGED <<previousLiveCalls, accepted, inflight, upstream>>
    /\ UNCHANGED <<fetchVars, hookVars, pureVars>>

(***************************************************************************)
(* socket.on('refresh-live-calls', ...): lines 53-56.                      *)
(***************************************************************************)
RefreshLiveCalls(s) ==
    /\ s \in connected
    /\ BagCardinality(inflight) < MaxInflight
    /\ inflight' = inflight (+)
          SetToBag({Call("fetchAndBroadcastLiveCalls", "refresh", NoSocket)})
    /\ emitted' = Nothing
    /\ resumed' = NoResumption
    /\ UNCHANGED <<connectedClients, pollInterval, previousLiveCalls, timers,
                   connected, accepted, upstream>>
    /\ UNCHANGED <<fetchVars, hookVars, pureVars>>

(***************************************************************************)
(* The setInterval callback of lines 93-95, for an armed timer.            *)
(***************************************************************************)
IntervalTick(t) ==
    /\ t \in timers
    /\ BagCardinality(inflight) < MaxInflight
    /\ inflight' = inflight (+)
          SetToBag({Call("fetchAndBroadcastLiveCalls", "scheduler", NoSocket)})
    /\ emitted' = Nothing
    /\ resumed' = NoResumption
    /\ UNCHANGED <<connectedClients, pollInterval, previousLiveCalls, timers,
                   connected, accepted, upstream>>
    /\ UNCHANGED <<fetchVars, hookVars, pureVars>>

(***************************************************************************)
(* elevenLabsService.getConversations() resolves: the provider answers     *)
(* with its current list, or the request fails and the catch returns       *)
(* success: false.                                                         *)
(***************************************************************************)
GetConversations(c, ok) ==
    /\ BagIn(c, inflight)
    /\ c.phase = "awaiting"
    /\ inflight' = (inflight (-) SetToBag({c})) (+)
          SetToBag({[c EXCEPT !.phase = "resolved",
                              !.result = IF ok THEN Success(upstream)
                                         ELSE Failure]})
    /\ emitted' = Nothing
    /\ resumed' = NoResumption
    /\ UNCHANGED <<connectedClients, pollInterval, previousLiveCalls, timers,
                   connected, accepted, upstream>>
    /\ UNCHANGED <<fetchVars, hookVars, pureVars>>

(***************************************************************************)
(* sendLiveCallsToClient after its await: lines 71-76.  clock is the       *)
(* reading of Date.now() in fetchLiveCalls; every conversation of          *)
(* UpstreamLists carries a start time, so new Date() of line 191 is not    *)
(* read and its value is taken to be the same reading.                     *)
(***************************************************************************)
\* a per-connection send that reports a failed build as an empty snapshot
ClientMessageSwallowsError(result, clock) ==
    IF result.success
    THEN Update(FetchLiveCalls(result.conversations, clock, clock))
    ELSE Update(<< >>)

ClientMessage(result, clock) ==
    IF result.success
    THEN Update(FetchLiveCalls(result.conversations, clock, clock))
    ELSE Error

\* a per-connection send that uses io.emit where the code uses socket.emit
SendLiveCallsToClientResumeIoEmit(c, clock) ==
    /\ BagIn(c, inflight)
    /\ c.fn = "sendLiveCallsToClient"
    /\ c.phase = "resolved"
    /\ emitted' = IoEmit(connected \cup {c.socket}, ClientMessage(c.result, clock))
    /\ inflight' = inflight (-) SetToBag({c})
    /\ resumed' = Resumption(c, clock)
    /\ UNCHANGED <<connectedClients, pollInterval, previousLiveCalls, timers,
                   connected, accepted, upstream>>
    /\ UNCHANGED <<fetchVars, hookVars, pureVars>>

SendLiveCallsToClientResume(c, clock) ==
    /\ BagIn(c, inflight)
    /\ c.fn = "sendLiveCallsToClient"
    /\ c.phase = "resolved"
    /\ emitted' = SocketEmit(c.socket, ClientMessage(c.result, clock))
    /\ inflight' = inflight (-) SetToBag({c})
    /\ resumed' = Resumption(c, clock)
    /\ UNCHANGED <<connectedClients, pollInterval, previousLiveCalls, timers,
                   connected, accepted, upstream>>
    /\ UNCHANGED <<fetchVars, hookVars, pureVars>>

(***************************************************************************)
(* fetchAndBroadcastLiveCalls after its await: lines 114-125.  The outcome *)
(* is the event passed to io.emit (NoEvent when nothing is emitted) and    *)
(* the new value of this.previousLiveCalls.                                *)
(***************************************************************************)
\* a poll cycle that stores every snapshot it builds, changed or not
BroadcastOutcomeAlwaysStores(prev, result, clock) ==
    IF result.success
    THEN LET liveCalls == FetchLiveCalls(result.conversations, clock, clock)
         IN IF HasDataChanged(prev, liveCalls)
            THEN [emit |-> Update(liveCalls), previousLiveCalls |-> liveCalls]
            ELSE [emit |-> NoEvent, previousLiveCalls |-> liveCalls]
    ELSE [emit |-> Error, previousLiveCalls |-> prev]

\* a poll cycle that clears the stored snapshot when the fetch fails
BroadcastOutcomeClearsOnError(prev, result, clock) ==
    IF result.success
    THEN LET liveCalls == FetchLiveCalls(result.conversations, clock, clock)
         IN IF HasDataChanged(prev, liveCalls)
            THEN [emit |-> Update(liveCalls), previousLiveCalls |-> liveCalls]
            ELSE [emit |-> NoEvent, previousLiveCalls |-> prev]
    ELSE [emit |-> Error, previousLiveCalls |-> << >>]

BroadcastOutcome(prev, result, clock) ==
    IF result.success
    THEN LET liveCalls == FetchLiveCalls(result.conversations, clock, clock)
         IN IF HasDataChanged(prev, liveCalls)
            THEN [emit |-> Update(liveCalls), previousLiveCalls |-> liveCalls]
            ELSE [emit |-> NoEvent, previousLiveCalls |-> prev]
    ELSE [emit |-> Error, previousLiveCalls |-> prev]

FetchAndBroadcastResume(c, clock) ==
    /\ BagIn(c, inflight)
    /\ c.fn = "fetchAndBroadcastLiveCalls"
    /\ c.phase = "resolved"
    /\ LET out == BroadcastOutcome(previousLiveCalls, c.result, clock)
       IN /\ emitted' = IF out.emit = NoEvent THEN Nothing
                        ELSE IoEmit(connected, out.emit)
          /\ previousLiveCalls' = out.previousLiveCalls
    /\ inflight' = inflight (-) SetToBag({c})
    /\ resumed' = Resumption(c, clock)
    /\ UNCHANGED <<connectedClients, pollInterval, timers, connected, accepted,
                   upstream>>
    /\ UNCHANGED <<fetchVars, hookVars, pureVars>>

(***************************************************************************)
(* The environment: the provider's list changes.                           *)
(***************************************************************************)
UpstreamChange ==
    /\ upstream' \in UpstreamLists \ {upstream}
    /\ emitted' = Nothing
    /\ resumed' = NoResumption
    /\ UNCHANGED <<connectedClients, pollInterval, previousLiveCalls, timers,
                   connected, accepted, inflight>>
    /\ UNCHANGED <<fetchVars, hookVars, pureVars>>

\* the service on its own: what its clients have seen is not followed
Next ==
    \/ \E s \in Sockets : Connection(s) /\ UNCHANGED trackVars
    \/ \E s \in Sockets : Disconnect(s) /\ UNCHANGED trackVars
    \/ \E s \in Sockets : RefreshLiveCalls(s) /\ UNCHANGED trackVars
    \/ \E t \in timers : IntervalTick(t) /\ UNCHANGED trackVars
    \/ \E c \in BagToSet(inflight) : \E ok \in BOOLEAN :
          GetConversations(c, ok) /\ UNCHANGED trackVars
    \/ \E c \in BagToSet(inflight) : \E clock \in ClockReadings :
          SendLiveCallsToClientResume(c, clock) /\ UNCHANGED trackVars
    \/ \E c \in BagToSet(inflight) : \E clock \in ClockReadings :
          FetchAndBroadcastResume(c, clock) /\ UNCHANGED trackVars
    \/ UpstreamChange /\ UNCHANGED trackVars

Spec == Init /\ [][Next]_vars

(***************************************************************************)
(* One call of fetchLiveCalls(), and hasDataChanged() on what it returns,  *)
(* for every answer of the provider and every pair of clock readings.      *)
(***************************************************************************)
MaxConversations == 2   \* conversations in one answer of the provider

FetchIds == {"c1", "c2"}

\* every active status, two ended ones (the second is in the server's list
\* only, not in the legacy client's) and one in neither list
FetchStatuses == ActiveStatuses \cup {"done", "ended", "queued"}

\* a start exactly MAX_CALL_DURATION_MS before the earliest clock reading
BoundaryStartSecs == (ClockStart - MAX_CALL_DURATION_MS) \div 1000

\* a start one second after the earliest clock reading
FutureStartSecs == ClockStart \div 1000 + 1

\* start_time_unix_secs and metadata.start_time_unix_secs: both absent, the
\* first present, the second present
StartTimes ==
    {[direct |-> 0, metadata |-> 0],
     [direct |-> BoundaryStartSecs, metadata |-> 0],
     [direct |-> 0, metadata |-> FutureStartSecs]}

FetchConversations ==
    {[Conv(id, status, t.direct)
        EXCEPT !.metadata_start_time_unix_secs = t.metadata] :
            id \in FetchIds, status \in FetchStatuses, t \in StartTimes}

\* the lists of at most n of the conversations convs
ListsOf(convs, n) == UNION {[1..k -> convs] : k \in 0..n}

HttpResponses ==
    {HttpThrew, HttpOkNoList}
        \cup {HttpOk(l) : l \in ListsOf(FetchConversations, MaxConversations)}

\* Date.now() of line 144; new Date() of line 191 reads the same
\* millisecond or the next
NowReadings == {ClockStart, ClockStart + 1}

\* the service as constructed, the provider's list not followed
ServerIdle ==
    /\ connectedClients = 0
    /\ pollInterval = NoTimer
    /\ previousLiveCalls = << >>
    /\ timers = {}
    /\ connected = {}
    /\ accepted = 0
    /\ inflight = EmptyBag
    /\ emitted = Nothing
    /\ resumed = NoResumption
    /\ upstream = << >>

FetchInit ==
    /\ ServerIdle
    /\ HookIdle
    /\ PureIdle
    /\ TrackIdle
    /\ httpResponse \in HttpResponses
    /\ nowRead \in NowReadings
    /\ dateRead \in {nowRead, nowRead + 1}
    /\ conversationsResult = Failure
    /\ outcome = Raised
    /\ hasChanged = FALSE
    /\ pc = "getConversations"
    /\ legacyResult = NotReturned

\* await elevenLabsService.getConversations(): line 135
GetConversationsReturns ==
    /\ pc = "getConversations"
    /\ conversationsResult' = GetConversationsResult(httpResponse)
    /\ pc' = "fetchLiveCalls"
    /\ UNCHANGED <<httpResponse, nowRead, dateRead, outcome, hasChanged,
                   legacyResult>>
    /\ UNCHANGED <<serverVars, hookVars, pureVars, trackVars>>

\* the rest of fetchLiveCalls(): lines 137-221
FetchLiveCallsReturns ==
    /\ pc = "fetchLiveCalls"
    /\ outcome' = FetchLiveCallsOutcome(conversationsResult, nowRead, dateRead)
    /\ pc' = IF outcome'.raised THEN "raised" ELSE "hasDataChanged"
    /\ UNCHANGED <<httpResponse, conversationsResult, nowRead, dateRead,
                   hasChanged, legacyResult>>
    /\ UNCHANGED <<serverVars, hookVars, pureVars, trackVars>>

\* this.hasDataChanged(liveCalls): line 116
HasDataChangedReturns ==
    /\ pc = "hasDataChanged"
    /\ hasChanged' = HasDataChanged(previousLiveCalls, outcome.liveCalls)
    /\ pc' = "returned"
    /\ UNCHANGED <<httpResponse, conversationsResult, nowRead, dateRead,
                   outcome, legacyResult>>
    /\ UNCHANGED <<serverVars, hookVars, pureVars, trackVars>>

\* liveCallsService.getLiveCalls() of the legacy client (api.ts, lines
\* 294-378), followed once the server's call has ended, given the same list
\* and the same clock readings; a failed request is caught and answered
\* with []
GetLiveCallsReturns ==
    /\ pc \in {"raised", "returned"}
    /\ ~legacyResult.returned
    /\ legacyResult' = ReturnedValue(
            IF conversationsResult.success
            THEN GetLiveCalls(conversationsResult.conversations, nowRead,
                              dateRead)
            ELSE << >>)
    /\ UNCHANGED <<httpResponse, conversationsResult, nowRead, dateRead,
                   outcome, hasChanged, pc>>
    /\ UNCHANGED <<serverVars, hookVars, pureVars, trackVars>>

FetchNext ==
    \/ GetConversationsReturns
    \/ FetchLiveCallsReturns
    \/ HasDataChangedReturns
    \/ GetLiveCallsReturns

FetchSpec == FetchInit /\ [][FetchNext]_vars

(***************************************************************************)
(* hasDataChanged() between two snapshots fetchLiveCalls() built: the one  *)
(* stored in previousLiveCalls and the one of the call followed.           *)
(***************************************************************************)
ChangeStatuses == {"initiated", "in_progress", "done"}

\* a start ten seconds before the earliest clock reading
RecentStartSecs == ClockStart \div 1000 - 10

ChangeConversations ==
    {Conv(id, status, RecentStartSecs) :
        id \in FetchIds, status \in ChangeStatuses}

PreviousSnapshots ==
    {FetchLiveCalls(l, clock, clock) :
        l \in ListsOf(ChangeConversations, MaxConversations),
        clock \in ClockReadings}

ChangeInit ==
    /\ connectedClients = 0
    /\ pollInterval = NoTimer
    /\ previousLiveCalls \in PreviousSnapshots
    /\ timers = {}
    /\ connected = {}
    /\ accepted = 0
    /\ inflight = EmptyBag
    /\ emitted = Nothing
    /\ resumed = NoResumption
    /\ upstream = << >>
    /\ HookIdle
    /\ PureIdle
    /\ TrackIdle
    /\ httpResponse \in
          {HttpOk(l) : l \in ListsOf(ChangeConversations, MaxConversations)}
    /\ nowRead \in ClockReadings
    /\ dateRead = nowRead
    /\ conversationsResult = Failure
    /\ outcome = Raised
    /\ hasChanged = FALSE
    /\ pc = "getConversations"
    /\ legacyResult = NotReturned

ChangeSpec == ChangeInit /\ [][FetchNext]_vars

(***************************************************************************)
(* The client hook useLiveCallsWebSocket, while its component is mounted:  *)
(* the handlers it registers on its socket (lines 51-116) and refresh()    *)
(* (lines 134-142).  The server's events reach the hook while the socket   *)
(* is connected.                                                           *)
(***************************************************************************)
ReconnectionAttempts == 5

\* JSON carries a Date as its ISO string
Serialize(calls) ==
    [i \in 1..Len(calls) |->
        [calls[i] EXCEPT !.startTime = [iso |-> calls[i].startTime]]]

\* new Date(call.startTime) of lines 63-66
ProcessedCalls(data) ==
    [i \in 1..Len(data) |-> [data[i] EXCEPT !.startTime = data[i].startTime.iso]]

\* the payloads of live-calls-update the service sends
UpdatePayloads == {Serialize(liveCalls) : liveCalls \in PreviousSnapshots}

\* the message of live-calls-error: error.message of the Error thrown at
\* line 138 of the service
ErrorMessages == {"Failed to fetch conversations"}

\* err.message of connect_error
ConnectErrorMessages == {"timeout", "websocket error", "xhr poll error"}

DisconnectReasons == {"io server disconnect", "transport close"}

HookInit == ServerIdle /\ FetchIdle /\ HookIdle /\ PureIdle /\ TrackIdle

\* socket.on('connect', ...): lines 51-56
OnConnect ==
    /\ ~socketConnected
    /\ socketConnected' = TRUE
    /\ isConnected' = TRUE
    /\ isLoading' = FALSE
    /\ error' = NoError
    /\ clientSent' = "none"
    /\ handled' = Handled("connect", << >>)
    /\ UNCHANGED clientLiveCalls
    /\ UNCHANGED <<serverVars, fetchVars, pureVars, trackVars>>

\* socket.on('live-calls-update', ...): lines 59-71
OnLiveCallsUpdate(data) ==
    /\ socketConnected
    /\ clientLiveCalls' = ProcessedCalls(data)
    /\ isLoading' = FALSE
    /\ error' = NoError
    /\ clientSent' = "none"
    /\ handled' = Handled("live-calls-update", data)
    /\ UNCHANGED <<isConnected, socketConnected>>
    /\ UNCHANGED <<serverVars, fetchVars, pureVars, trackVars>>

\* an error handler that also drops the calls shown
OnLiveCallsErrorClearsCalls(message) ==
    /\ socketConnected
    /\ error' = message
    /\ isLoading' = FALSE
    /\ clientLiveCalls' = << >>
    /\ clientSent' = "none"
    /\ handled' = Handled("live-calls-error", message)
    /\ UNCHANGED <<isConnected, socketConnected>>
    /\ UNCHANGED <<serverVars, fetchVars, pureVars, trackVars>>

\* socket.on('live-calls-error', ...): lines 74-78
OnLiveCallsError(message) ==
    /\ socketConnected
    /\ error' = message
    /\ isLoading' = FALSE
    /\ clientSent' = "none"
    /\ handled' = Handled("live-calls-error", message)
    /\ UNCHANGED <<clientLiveCalls, isConnected, socketConnected>>
    /\ UNCHANGED <<serverVars, fetchVars, pureVars, trackVars>>

\* socket.on('connect_error', ...): lines 81-85
OnConnectError(message) ==
    /\ ~socketConnected
    /\ error' = "Connection failed: " \o message
    /\ isLoading' = FALSE
    /\ clientSent' = "none"
    /\ handled' = Handled("connect_error", message)
    /\ UNCHANGED <<clientLiveCalls, isConnected, socketConnected>>
    /\ UNCHANGED <<serverVars, fetchVars, pureVars, trackVars>>

\* socket.on('disconnect', ...): lines 88-96; socket.connect() starts a
\* connection attempt and changes nothing until it ends
OnDisconnect(reason) ==
    /\ socketConnected
    /\ socketConnected' = FALSE
    /\ isConnected' = FALSE
    /\ clientSent' = "none"
    /\ handled' = Handled("disconnect", reason)
    /\ UNCHANGED <<clientLiveCalls, isLoading, error>>
    /\ UNCHANGED <<serverVars, fetchVars, pureVars, trackVars>>

\* socket.on('reconnect_attempt', ...): lines 99-102
OnReconnectAttempt(attemptNumber) ==
    /\ ~socketConnected
    /\ error' = "Reconnecting... (attempt " \o ToString(attemptNumber) \o ")"
    /\ clientSent' = "none"
    /\ handled' = Handled("reconnect_attempt", attemptNumber)
    /\ UNCHANGED <<clientLiveCalls, isConnected, isLoading, socketConnected>>
    /\ UNCHANGED <<serverVars, fetchVars, pureVars, trackVars>>

\* socket.on('reconnect', ...): lines 105-109, once the socket is back
OnReconnect(attemptNumber) ==
    /\ socketConnected
    /\ isConnected' = TRUE
    /\ error' = NoError
    /\ clientSent' = "none"
    /\ handled' = Handled("reconnect", attemptNumber)
    /\ UNCHANGED <<clientLiveCalls, isLoading, socketConnected>>
    /\ UNCHANGED <<serverVars, fetchVars, pureVars, trackVars>>

\* socket.on('reconnect_failed', ...): lines 112-115
OnReconnectFailed ==
    /\ ~socketConnected
    /\ error' = "Failed to connect to server. Please refresh the page."
    /\ clientSent' = "none"
    /\ handled' = Handled("reconnect_failed", << >>)
    /\ UNCHANGED <<clientLiveCalls, isConnected, isLoading, socketConnected>>
    /\ UNCHANGED <<serverVars, fetchVars, pureVars, trackVars>>

\* a refresh() that shows the loading state while not connected
RefreshSetsLoading ==
    /\ IF socketConnected
       THEN /\ clientSent' = "refresh-live-calls"
            /\ UNCHANGED <<error, isLoading>>
       ELSE /\ clientSent' = "none"
            /\ error' = "Not connected to server"
            /\ isLoading' = TRUE
    /\ handled' = Handled("refresh", << >>)
    /\ UNCHANGED <<clientLiveCalls, isConnected, socketConnected>>
    /\ UNCHANGED <<serverVars, fetchVars, pureVars, trackVars>>

\* refresh(): lines 134-142
Refresh ==
    /\ IF socketConnected
       THEN /\ clientSent' = "refresh-live-calls"
            /\ UNCHANGED error
       ELSE /\ clientSent' = "none"
            /\ error' = "Not connected to server"
    /\ handled' = Handled("refresh", << >>)
    /\ UNCHANGED <<clientLiveCalls, isConnected, isLoading, socketConnected>>
    /\ UNCHANGED <<serverVars, fetchVars, pureVars, trackVars>>

HookNext ==
    \/ OnConnect
    \/ \E data \in UpdatePayloads : OnLiveCallsUpdate(data)
    \/ \E message \in ErrorMessages : OnLiveCallsError(message)
    \/ \E message \in ConnectErrorMessages : OnConnectError(message)
    \/ \E reason \in DisconnectReasons : OnDisconnect(reason)
    \/ \E attemptNumber \in 1..ReconnectionAttempts :
          OnReconnectAttempt(attemptNumber)
    \/ \E attemptNumber \in 1..ReconnectionAttempts :
          OnReconnect(attemptNumber)
    \/ OnReconnectFailed
    \/ Refresh

HookSpec == HookInit /\ [][HookNext]_vars

(***************************************************************************)
(* generatePageNumbers(currentPage, totalPages) of Pagination.tsx, lines   *)
(* 37-74.  The result is a list of page numbers and 'ellipsis' entries; an *)
(* 'ellipsis' entry is written Ellipsis, which is no page number.          *)
(***************************************************************************)
MaxPages == 20   \* the largest totalPages drawn

Ellipsis == 0

ShowAllPages == 7

Max(a, b) == IF a >= b THEN a ELSE b

Min(a, b) == IF a <= b THEN a ELSE b

\* a left ellipsis that already appears for the fourth page
GeneratePageNumbersEarlyEllipsis(currentPage, totalPages) ==
    IF totalPages <= ShowAllPages THEN [i \in 1..totalPages |-> i]
    ELSE LET startPage == Max(2, currentPage - 2)
             endPage == Min(totalPages - 1, currentPage + 2)
         IN <<1>>
            \o (IF currentPage > 3 THEN <<Ellipsis>> ELSE << >>)
            \o [i \in 1..(endPage - startPage + 1) |-> startPage + i - 1]
            \o (IF currentPage < totalPages - 3 THEN <<Ellipsis>> ELSE << >>)
            \o <<totalPages>>

\* a show-all limit of eight pages
GeneratePageNumbersShowAllEight(currentPage, totalPages) ==
    IF totalPages <= ShowAllPages + 1 THEN [i \in 1..totalPages |-> i]
    ELSE LET startPage == Max(2, currentPage - 2)
             endPage == Min(totalPages - 1, currentPage + 2)
         IN <<1>>
            \o (IF currentPage > 4 THEN <<Ellipsis>> ELSE << >>)
            \o [i \in 1..(endPage - startPage + 1) |-> startPage + i - 1]
            \o (IF currentPage < totalPages - 3 THEN <<Ellipsis>> ELSE << >>)
            \o <<totalPages>>

GeneratePageNumbers(currentPage, totalPages) ==
    IF totalPages <= ShowAllPages THEN [i \in 1..totalPages |-> i]
    ELSE LET showLeftEllipsis == currentPage > 4
             showRightEllipsis == currentPage < totalPages - 3
             startPage == Max(2, currentPage - 2)
             endPage == Min(totalPages - 1, currentPage + 2)
         IN <<1>>
            \o (IF showLeftEllipsis THEN <<Ellipsis>> ELSE << >>)
            \o [i \in 1..(endPage - startPage + 1) |-> startPage + i - 1]
            \o (IF showRightEllipsis THEN <<Ellipsis>> ELSE << >>)
            \o (IF totalPages > 1 THEN <<totalPages>> ELSE << >>)

PageInit ==
    /\ ServerIdle
    /\ FetchIdle
    /\ HookIdle
    /\ TrackIdle
    /\ \E totalPages \in 1..MaxPages : \E currentPage \in 1..totalPages :
          pageInput = [currentPage |-> currentPage, totalPages |-> totalPages]
    /\ pageResult = NotReturned
    /\ phoneInput = << >>
    /\ phoneResult = NotReturned

\* the call generatePageNumbers(currentPage, totalPages) of the component
GeneratePageNumbersReturns ==
    /\ ~pageResult.returned
    /\ pageResult' = ReturnedValue(GeneratePageNumbers(pageInput.currentPage,
                                                       pageInput.totalPages))
    /\ UNCHANGED <<pageInput, phoneInput, phoneResult>>
    /\ UNCHANGED <<serverVars, fetchVars, hookVars, trackVars>>

PageNext == GeneratePageNumbersReturns

PageSpec == PageInit /\ [][PageNext]_vars

(***************************************************************************)
(* The phone formatting of initiateCall (elevenLabsService.js, lines       *)
(* 355-393; test-phone-formatting.js repeats it as formatPhoneNumber).  A  *)
(* string is the sequence of its characters.                               *)
(***************************************************************************)
MaxSeparators == 1   \* separator characters written inside the number

NationalLength == 10

Digits == {"0", "1", "2", "3", "4", "5", "6", "7", "8", "9"}

Whitespace == {" "}

\* String.prototype.trim()
Trim(str) ==
    LET inked == {i \in 1..Len(str) : str[i] \notin Whitespace}
    IN IF inked = {} THEN << >>
       ELSE SubSeq(str, CHOOSE i \in inked : \A j \in inked : i <= j,
                        CHOOSE i \in inked : \A j \in inked : i >= j)

\* .replace(/\D/g, '')
RemoveNonDigits(str) == SelectSeq(str, LAMBDA ch : ch \in Digits)

\* cleanNumber.startsWith('91')
StartsWith91(str) == Len(str) >= 2 /\ str[1] = "9" /\ str[2] = "1"

\* a formatting that takes every leading 91 for the country code
FormatPhoneNumberByPrefix(toNumber) ==
    LET cleanNumber == RemoveNonDigits(Trim(toNumber))
    IN IF StartsWith91(cleanNumber) THEN ReturnedValue(<<"+">> \o cleanNumber)
       ELSE IF Len(cleanNumber) > 0
       THEN ReturnedValue(<<"+", "9", "1">> \o cleanNumber)
       ELSE Threw

FormatPhoneNumber(toNumber) ==
    LET cleanNumber == RemoveNonDigits(Trim(toNumber))
    IN IF Len(cleanNumber) = NationalLength
       THEN ReturnedValue(<<"+", "9", "1">> \o cleanNumber)
       ELSE IF Len(cleanNumber) = NationalLength + 2 /\ StartsWith91(cleanNumber)
       THEN ReturnedValue(<<"+">> \o cleanNumber)
       ELSE IF Len(cleanNumber) = NationalLength + 1 /\ StartsWith91(cleanNumber)
       THEN ReturnedValue(<<"+", "9", "1">> \o cleanNumber)
       ELSE IF Len(cleanNumber) = NationalLength + 1
       THEN ReturnedValue(<<"+", "9", "1">> \o cleanNumber)
       ELSE IF Len(cleanNumber) > NationalLength + 2
       THEN ReturnedValue(<<"+">> \o cleanNumber)
       ELSE IF Len(cleanNumber) > 0
       THEN ReturnedValue(<<"+", "9", "1">> \o cleanNumber)
       ELSE Threw

\* national numbers: every pair of leading digits out of 9, 1 and 8, before
\* the last eight digits of the number of the test suite
NationalNumbers ==
    {<<a, b, "6", "8", "4", "9", "8", "5", "7", "0">> :
        a \in {"9", "1", "8"}, b \in {"9", "1", "8"}}

\* a national number, one short of its last digit, and one with a digit
\* typed before it
DigitCores ==
    NationalNumbers
        \cup {SubSeq(n, 1, NationalLength - 1) :
                n \in {m \in NationalNumbers : m[1] = m[2]}}
        \cup {<<"1">> \o n : n \in {m \in NationalNumbers : m[1] = m[2]}}

Separators == {" ", "-"}

RECURSIVE WithSeparators(_, _)
\* str with at most n separator characters written between its characters
WithSeparators(str, n) ==
    IF n = 0 THEN {str}
    ELSE LET fewer == WithSeparators(str, n - 1)
         IN fewer \cup
            {SubSeq(b, 1, k) \o <<ch>> \o SubSeq(b, k + 1, Len(b)) :
                b \in fewer, k \in 1..(Len(str) - 1), ch \in Separators}

\* the country code as users write it before the number, or nothing
CountryCodes ==
    {<< >>, <<"9", "1">>, <<"9", "1", " ">>, <<"9", "1", "-">>,
     <<"(", "9", "1", ")", " ">>}

PhoneInputs ==
    {<< >>, <<" ">>, <<"+">>, <<"(", ")", "-">>}
        \cup {lead \o plus \o cc \o body \o trail :
                lead \in {<< >>, <<" ", " ">>},
                plus \in {<< >>, <<"+">>},
                cc \in CountryCodes,
                body \in UNION {WithSeparators(core, MaxSeparators) :
                                    core \in DigitCores},
                trail \in {<< >>, <<" ", " ">>}}

PhoneInit ==
    /\ ServerIdle
    /\ FetchIdle
    /\ HookIdle
    /\ TrackIdle
    /\ pageInput = [currentPage |-> 1, totalPages |-> 1]
    /\ pageResult = NotReturned
    /\ phoneInput \in PhoneInputs
    /\ phoneResult = NotReturned

\* the formatting of toNumber at the head of initiateCall
FormatPhoneNumberReturns ==
    /\ ~phoneResult.returned
    /\ phoneResult' = FormatPhoneNumber(phoneInput)
    /\ UNCHANGED <<pageInput, pageResult, phoneInput>>
    /\ UNCHANGED <<serverVars, fetchVars, hookVars, trackVars>>

PhoneNext == FormatPhoneNumberReturns

PhoneSpec == PhoneInit /\ [][PhoneNext]_vars

(***************************************************************************)
(* The service together with its clients.  Each connected socket is the    *)
(* socket of one useLiveCallsWebSocket hook, whose liveCalls and error are *)
(* set by the handlers of live-calls-update and live-calls-error; the      *)
(* events emitted to one socket reach its hook in the order of emission.   *)
(* The hooks of the first MaxClients sockets are followed.  The provider's *)
(* list goes through TrackHistory: no call is active (c0 has ended), then  *)
(* call c1 is being set up, then the provider reports c1 twice, once per   *)
(* status.                                                                 *)
(***************************************************************************)
MaxClients == 1

Followed == 1..MaxClients

TrackHistory ==
    << <<Conv("c0", "done", 980)>>,
       <<Conv("c1", "initiated", 990), Conv("c0", "done", 980)>>,
       <<Conv("c1", "in_progress", 990), Conv("c1", "initiated", 990)>> >>

\* the position in TrackHistory of a list the provider returned
VersionOf(conversations) ==
    CHOOSE v \in 1..Len(TrackHistory) : TrackHistory[v] = conversations

\* the hook's state after the handler of msg; origin is the caller of the
\* service method that emitted it
Receive(client, msg, origin) ==
    IF msg.event = "live-calls-update"
    THEN [liveCalls |-> ProcessedCalls(Serialize(msg.payload)),
          error |-> NoError, gotUpdate |-> TRUE, errorFrom |-> "none"]
    ELSE IF msg.event = "live-calls-error"
    THEN [client EXCEPT !.error = CHOOSE m \in ErrorMessages : TRUE,
                        !.errorFrom = origin]
    ELSE client

\* the hooks after the events of one step, delivered to the sockets that
\* are still connected
Deliver(events, origin) ==
    [s \in Sockets |->
        IF s \in connected THEN Receive(clients[s], events[s], origin)
        ELSE clients[s]]

\* what io.emit('live-calls-update', liveCalls) of line 120 sent last, and
\* the provider's list it was built from
Broadcast(liveCalls, conversations) ==
    [sent |-> TRUE, payload |-> liveCalls, version |-> VersionOf(conversations)]

\* the calls of TrackHistory are recent at every reading of the clock and
\* what follows reads ids and statuses only: one reading of Date.now()
TrackClock == {ClockStart}

TrackInit ==
    /\ connectedClients = 0
    /\ pollInterval = NoTimer
    /\ previousLiveCalls = << >>
    /\ timers = {}
    /\ connected = {}
    /\ accepted = 0
    /\ inflight = EmptyBag
    /\ emitted = Nothing
    /\ resumed = NoResumption
    /\ upstream = TrackHistory[1]
    /\ FetchIdle
    /\ HookIdle
    /\ PureIdle
    /\ TrackIdle

\* a page mounts the hook and its socket connects
ClientConnects(s) ==
    /\ ~quiet
    /\ Connection(s)
    /\ clients' = [clients EXCEPT ![s] = NoClient]
    /\ UNCHANGED <<lastBroadcast, quiet>>

ClientDisconnects(s) ==
    /\ ~quiet
    /\ Disconnect(s)
    /\ UNCHANGED trackVars

ClientRefreshes(s) ==
    /\ ~quiet
    /\ RefreshLiveCalls(s)
    /\ UNCHANGED trackVars

TimerFires(t) ==
    /\ IntervalTick(t)
    /\ UNCHANGED trackVars

\* the provider answers a request; once quiet, every request succeeds
ProviderAnswers(c, ok) ==
    /\ quiet => ok
    /\ GetConversations(c, ok)
    /\ UNCHANGED trackVars

ClientIsSent(c, clock) ==
    /\ SendLiveCallsToClientResume(c, clock)
    /\ clients' = Deliver(emitted', c.origin)
    /\ UNCHANGED <<lastBroadcast, quiet>>

AllAreSent(c, clock) ==
    /\ FetchAndBroadcastResume(c, clock)
    /\ clients' = Deliver(emitted', c.origin)
    /\ lastBroadcast' =
          IF BroadcastOutcome(previousLiveCalls, c.result, clock).emit.event
                = "live-calls-update"
          THEN Broadcast(previousLiveCalls', c.result.conversations)
          ELSE lastBroadcast
    /\ UNCHANGED quiet

\* the provider's list changes to the next one of TrackHistory
ProviderAdvances ==
    /\ ~quiet
    /\ VersionOf(upstream) < Len(TrackHistory)
    /\ upstream' = TrackHistory[VersionOf(upstream) + 1]
    /\ emitted' = Nothing
    /\ resumed' = NoResumption
    /\ UNCHANGED <<connectedClients, pollInterval, previousLiveCalls, timers,
                   connected, accepted, inflight>>
    /\ UNCHANGED <<fetchVars, hookVars, pureVars, trackVars>>

\* from here on the provider's list stays as it is, requests succeed and no
\* client connects, disconnects or asks for a refresh
Quiesce ==
    /\ ~quiet
    /\ quiet' = TRUE
    /\ emitted' = Nothing
    /\ resumed' = NoResumption
    /\ UNCHANGED <<connectedClients, pollInterval, previousLiveCalls, timers,
                   connected, accepted, inflight, upstream>>
    /\ UNCHANGED <<clients, lastBroadcast>>
    /\ UNCHANGED <<fetchVars, hookVars, pureVars>>

TrackNext ==
    \/ \E s \in Followed : ClientConnects(s)
    \/ \E s \in Followed : ClientDisconnects(s)
    \/ \E s \in Followed : ClientRefreshes(s)
    \/ \E t \in timers : TimerFires(t)
    \/ \E c \in BagToSet(inflight) : \E ok \in BOOLEAN : ProviderAnswers(c, ok)
    \/ \E c \in BagToSet(inflight) : \E clock \in TrackClock :
          ClientIsSent(c, clock)
    \/ \E c \in BagToSet(inflight) : \E clock \in TrackClock :
          AllAreSent(c, clock)
    \/ ProviderAdvances
    \/ Quiesce

TrackSpec == TrackInit /\ [][TrackNext]_vars

(***************************************************************************)
(* The same, with the scheduling of the event loop: an armed interval      *)
(* timer fires, a request that succeeds is answered, and the continuation  *)
(* of a resolved await runs.                                               *)
(***************************************************************************)
\* every call the followed service can have in flight, and every answer
TrackCalls ==
    {Call("sendLiveCallsToClient", "connection", s) : s \in Followed}
        \cup {Call("fetchAndBroadcastLiveCalls", origin, NoSocket) :
                    origin \in {"scheduler", "refresh"}}

TrackAnswers ==
    {Failure} \cup {Success(TrackHistory[v]) : v \in 1..Len(TrackHistory)}

Answered(c, result) == [c EXCEPT !.phase = "resolved", !.result = result]

TrackFairSpec ==
    /\ TrackSpec
    /\ WF_vars(\E t \in timers : TimerFires(t))
    /\ \A c \in TrackCalls : WF_vars(ProviderAnswers(c, TRUE))
    /\ \A c \in TrackCalls : \A result \in TrackAnswers :
          WF_vars(\E clock \in TrackClock :
                    \/ ClientIsSent(Answered(c, result), clock)
                    \/ AllAreSent(Answered(c, result), clock))

(***************************************************************************)
(* Steps, as seen from a pair of states.                                   *)
(***************************************************************************)
\* the continuation of call c runs in this step
Resumes(c) ==
    /\ BagIn(c, inflight)
    /\ c.phase = "resolved"
    /\ resumed'.call = c
    /\ inflight' = inflight (-) SetToBag({c})

\* the calls of fetchAndBroadcastLiveCalls between call and completion
PollsInFlight == {c \in BagToSet(inflight) : c.fn = "fetchAndBroadcastLiveCalls"}

NumPollsInFlight ==
    BagCardinality([c \in PollsInFlight |-> CopiesIn(c, inflight)])

\* the snapshot a continuation builds from its resolved call and its clock
BuiltBy(r) == FetchLiveCalls(r.call.result.conversations, r.now, r.now)

\* the (id, status) pairs of a snapshot, in order
IdStatus(calls) == [i \in 1..Len(calls) |-> <<calls[i].id, calls[i].status>>]

\* some id of both snapshots has a different status in each
SharedIdStatusDiffers(a, b) ==
    \E i \in 1..Len(a) : \E j \in 1..Len(b) :
        a[i].id = b[j].id /\ a[i].status # b[j].status

(***************************************************************************)
(* C1: between event handlers, the poll timer is armed (pollInterval is    *)
(* not null) exactly when connectedClients >= 1; it is armed by the        *)
(* connection that takes the count from 0 to 1 and cleared by the          *)
(* disconnect that takes it from 1 to 0.                                   *)
(***************************************************************************)
C1_TimerArmedIffClients ==
    /\ [](pollInterval # NoTimer <=> connectedClients >= 1)
    /\ [][/\ (pollInterval = NoTimer /\ pollInterval' # NoTimer)
                => (connectedClients = 0 /\ connectedClients' = 1)
          /\ (pollInterval # NoTimer /\ pollInterval' = NoTimer)
                => (connectedClients = 1 /\ connectedClients' = 0)]_vars

\* both clients came and went: the timer was armed, and is cleared again
C1_Witness ==
    accepted = 2 /\ connectedClients = 0 /\ pollInterval = NoTimer

(***************************************************************************)
(* C2: connectedClients is never negative and equals the number of sockets *)
(* that have connected and not yet disconnected.                           *)
(***************************************************************************)
C2_CountMatchesSockets ==
    connectedClients >= 0 /\ connectedClients = Cardinality(connected)

\* one socket has disconnected, one is still connected
C2_Witness == accepted = 2 /\ connected = {2} /\ connectedClients = 1

C4_ImmediateSnapshotOnConnect ==
    [][/\ accepted' # accepted =>
             /\ CopiesIn(Call("sendLiveCallsToClient", "connection", accepted'),
                         inflight')
                  > CopiesIn(Call("sendLiveCallsToClient", "connection",
                                  accepted'), inflight)
             /\ accepted' \in connected'
       /\ \A c \in BagToSet(inflight) :
             (Resumes(c) /\ c.fn = "sendLiveCallsToClient") =>
                 emitted'[c.socket] =
                     IF c.result.success THEN Update(BuiltBy(resumed')) ELSE Error]_vars

\* a connected client was sent a snapshot the change detector sees no change in
C4_Witness ==
    /\ resumed.call.fn = "sendLiveCallsToClient"
    /\ resumed.call.socket \in connected
    /\ emitted[resumed.call.socket].event = "live-calls-update"
    /\ ~HasDataChanged(previousLiveCalls, emitted[resumed.call.socket].payload)

(***************************************************************************)
(* C5: the per-connection send emits to the new socket only and leaves     *)
(* previousLiveCalls, connectedClients and the timer unchanged, on success *)
(* and on failure.                                                         *)
(***************************************************************************)
C5_SendTouchesOnlyItsSocket ==
    [][\A c \in BagToSet(inflight) :
        (Resumes(c) /\ c.fn = "sendLiveCallsToClient") =>
            /\ \A s \in Sockets \ {c.socket} : emitted'[s] = NoEvent
            /\ emitted'[c.socket] # NoEvent
            /\ previousLiveCalls' = previousLiveCalls
            /\ connectedClients' = connectedClients
            /\ pollInterval' = pollInterval
            /\ timers' = timers]_vars

\* with two clients connected, a send whose snapshot differs from the stored
\* one reached its own socket only
C5_Witness ==
    /\ resumed.call.fn = "sendLiveCallsToClient"
    /\ connected = Sockets
    /\ emitted[resumed.call.socket].event = "live-calls-update"
    /\ HasDataChanged(previousLiveCalls, emitted[resumed.call.socket].payload)
    /\ \A s \in Sockets \ {resumed.call.socket} : emitted[s] = NoEvent

(***************************************************************************)
(* C6: at most one execution of fetchAndBroadcastLiveCalls is between the  *)
(* start of its fetch and its completion at any time.                      *)
(***************************************************************************)
C6_SingleFlight == NumPollsInFlight <= 1

(***************************************************************************)
(* C7: every manual refresh whose build succeeds is followed by a          *)
(* live-calls-update carrying the fresh snapshot, whatever the change      *)
(* detector reports.                                                       *)
(***************************************************************************)
C7_RefreshAlwaysEmits ==
    [][\A c \in PollsInFlight :
        (Resumes(c) /\ c.origin = "refresh" /\ c.result.success
            /\ connected # {})
        => emitted' = IoEmit(connected, Update(BuiltBy(resumed')))]_vars

(***************************************************************************)
(* C8: a fetch failure during a manual refresh is reported to the client   *)
(* that asked for the refresh only: no other connected client receives a   *)
(* live-calls-error for it.  The refresh handler does not pass its socket  *)
(* on, so the requester is some one socket r.                              *)
(***************************************************************************)
C8_RefreshErrorToRequesterOnly ==
    [][\A c \in PollsInFlight :
        (Resumes(c) /\ c.origin = "refresh" /\ ~c.result.success)
        => \E r \in Sockets : \A s \in Sockets \ {r} :
               emitted'[s].event # "live-calls-error"]_vars

(***************************************************************************)
(* C9: a fetch failure during a timer-driven poll emits live-calls-error   *)
(* to all connected clients and no live-calls-update, leaves               *)
(* previousLiveCalls unchanged and leaves the timer armed, so that the     *)
(* next tick starts a new fetch.                                           *)
(***************************************************************************)
C9_FailedPollKeepsState ==
    /\ [](pollInterval # NoTimer => pollInterval \in timers)
    /\ [][\A c \in PollsInFlight :
            (Resumes(c) /\ c.origin = "scheduler" /\ ~c.result.success) =>
                /\ emitted' = IoEmit(connected, Error)
                /\ previousLiveCalls' = previousLiveCalls
                /\ pollInterval' = pollInterval
                /\ timers' = timers]_vars
    /\ []((pollInterval \in timers /\ BagCardinality(inflight) < MaxInflight)
            => ENABLED IntervalTick(pollInterval))

\* a timer tick's fetch failed: the clients were told, the stored snapshot
\* is kept, and the timer is still armed
C9_Witness ==
    /\ resumed.call.fn = "fetchAndBroadcastLiveCalls"
    /\ resumed.call.origin = "scheduler"
    /\ ~resumed.call.result.success
    /\ connected # {}
    /\ \A s \in connected : emitted[s] = Error
    /\ previousLiveCalls # << >>
    /\ pollInterval \in timers

(***************************************************************************)
(* C10: while connectedClients is 0, no fetch is started except by the     *)
(* next connection; fetches in flight may complete.                        *)
(***************************************************************************)
C10_NoFetchWithoutClients ==
    [][(connectedClients = 0
          /\ BagCardinality(inflight') > BagCardinality(inflight))
        => accepted' = accepted + 1]_vars

\* the last client has gone while a fetch was in flight
C10_Witness ==
    /\ accepted >= 1
    /\ connectedClients = 0
    /\ timers = {}
    /\ inflight # EmptyBag

(***************************************************************************)
(* C11: when the fetch of a poll completes while connectedClients is 0,    *)
(* its result is discarded: nothing is broadcast and previousLiveCalls is  *)
(* not modified.                                                           *)
(***************************************************************************)
C11_LatePollDiscarded ==
    [][\A c \in PollsInFlight :
            (Resumes(c) /\ c.origin = "scheduler" /\ connectedClients = 0) =>
                /\ emitted' = Nothing
                /\ previousLiveCalls' = previousLiveCalls]_vars

\* the (id, status) pairs a snapshot holds
PairsOf(calls) == {IdStatus(calls)[i] : i \in 1..Len(calls)}

\* no id occurs twice in the snapshot
DistinctIds(calls) == Cardinality(IdsOf(calls)) = Len(calls)

(***************************************************************************)
(* C12: hasDataChanged returns false whenever the new snapshot and         *)
(* previousLiveCalls hold the same ids with the same status per id: an     *)
(* identical copy, or one that differs only in duration or startTime.      *)
(***************************************************************************)
C12_SameIdsAndStatusesUnchanged ==
    (pc = "returned" /\ PairsOf(outcome.liveCalls) = PairsOf(previousLiveCalls))
        => ~hasChanged

(***************************************************************************)
(* C13: hasDataChanged returns true for every pair of snapshots whose sets *)
(* of ids differ in size or membership (an equal-length pair with one id   *)
(* swapped included), and for every pair in which some id present in both  *)
(* has a different status.                                                 *)
(***************************************************************************)
C13_DifferentIdsOrStatusChanged ==
    (/\ pc = "returned"
     /\ \/ IdsOf(outcome.liveCalls) # IdsOf(previousLiveCalls)
        \/ SharedIdStatusDiffers(previousLiveCalls, outcome.liveCalls))
        => hasChanged

\* the call of fetchLiveCalls() followed has returned a snapshot
HasReturned == pc \in {"hasDataChanged", "returned"}

(***************************************************************************)
(* C14: a conversation of the provider's list appears in the snapshot if   *)
(* and only if its status is one of in_progress, active, ongoing,          *)
(* in-progress, initiated, is not one of the ended statuses, and           *)
(* now - startTime is at most 15 minutes: a call of exactly 15 minutes is  *)
(* kept, one a millisecond older is dropped.                               *)
(***************************************************************************)
C14_SnapshotIsActiveAndFresh ==
    HasReturned =>
        LET Kept(conv) ==
                /\ conv.status \in {"in_progress", "active", "ongoing",
                                    "in-progress", "initiated"}
                /\ conv.status \notin {"done", "completed", "failed",
                                       "cancelled", "terminated", "ended",
                                       "disconnected", "hung_up", "finished",
                                       "closed"}
                /\ nowRead - StartTimeOf(conv, dateRead) <= 15 * 60 * 1000
            kept == SelectSeq(conversationsResult.conversations, Kept)
        IN /\ Len(outcome.liveCalls) = Len(kept)
           /\ \A i \in 1..Len(kept) :
                /\ outcome.liveCalls[i].id = kept[i].conversation_id
                /\ outcome.liveCalls[i].status = kept[i].status
                /\ outcome.liveCalls[i].startTime
                      = StartTimeOf(kept[i], dateRead)

\* of an ended call and an active call that started exactly 15 minutes
\* before now, the snapshot holds the second only
C14_Witness ==
    /\ HasReturned
    /\ Len(conversationsResult.conversations) = 2
    /\ conversationsResult.conversations[1].status = "done"
    /\ conversationsResult.conversations[2].status = "ongoing"
    /\ Len(outcome.liveCalls) = 1
    /\ outcome.liveCalls[1].id = conversationsResult.conversations[2].conversation_id
    /\ nowRead - outcome.liveCalls[1].startTime = MAX_CALL_DURATION_MS

(***************************************************************************)
(* C15: every record of a snapshot has duration >= 0, equal to the whole   *)
(* seconds between its startTime and now, for every start time the         *)
(* provider reports, one later than the server's clock included.           *)
(***************************************************************************)
C15_DurationWholeSecondsNonNegative ==
    (/\ HasReturned
     /\ \A i \in 1..Len(conversationsResult.conversations) :
            StartTimeUnixOf(conversationsResult.conversations[i]) # 0)
        => \A i \in 1..Len(outcome.liveCalls) :
              LET call == outcome.liveCalls[i]
              IN /\ call.duration >= 0
                 /\ call.duration * 1000 <= nowRead - call.startTime
                 /\ nowRead - call.startTime < (call.duration + 1) * 1000

(***************************************************************************)
(* C16: a conversation whose start time is absent from both fields gets    *)
(* startTime equal to the build time now and duration exactly 0, even if   *)
(* the clock advances between the reading of now and the defaulting of     *)
(* startTime.                                                              *)
(***************************************************************************)
C16_AbsentStartDefaultsToNow ==
    (/\ HasReturned
     /\ \A i \in 1..Len(conversationsResult.conversations) :
            StartTimeUnixOf(conversationsResult.conversations[i]) = 0)
        => \A i \in 1..Len(outcome.liveCalls) :
              /\ outcome.liveCalls[i].startTime = nowRead
              /\ outcome.liveCalls[i].duration = 0

(***************************************************************************)
(* C17: within every snapshot fetchLiveCalls returns the ids are pairwise  *)
(* distinct, whatever list the provider returns, one that repeats a        *)
(* conversation_id included.                                               *)
(***************************************************************************)
C17_SnapshotIdsDistinct ==
    HasReturned => DistinctIds(outcome.liveCalls)

(***************************************************************************)
(* C18: fetchLiveCalls either returns a complete snapshot or raises.  When *)
(* the conversation fetch reports success false it raises, returns no      *)
(* snapshot, and its caller emits an error and no live-calls-update; when  *)
(* the fetch succeeds with an empty list it returns the empty snapshot and *)
(* raises nothing.                                                         *)
(***************************************************************************)
C18_SnapshotOrRaise ==
    pc \in {"raised", "hasDataChanged", "returned"} =>
        /\ outcome.raised <=> pc = "raised"
        /\ httpResponse.threw =>
              /\ ~conversationsResult.success
              /\ outcome = Raised
              /\ ClientMessage(conversationsResult, nowRead) = Error
              /\ BroadcastOutcome(previousLiveCalls, conversationsResult,
                                  nowRead).emit = Error
        /\ ~httpResponse.threw =>
              /\ conversationsResult.success
              /\ ~outcome.raised
              /\ Len(outcome.liveCalls)
                    <= Len(conversationsResult.conversations)
        /\ (~httpResponse.threw /\ httpResponse.conversations = << >>) =>
              /\ outcome = Returned(<< >>)
              /\ ClientMessage(conversationsResult, nowRead) = Update(<< >>)

\* the provider's request failed and fetchLiveCalls raised
C18_Witness ==
    /\ pc = "raised"
    /\ httpResponse = HttpThrew
    /\ ~conversationsResult.success
    /\ outcome.raised

(***************************************************************************)
(* C19: on receipt of live-calls-error the client sets error to the        *)
(* received message and isLoading to false, and leaves liveCalls and       *)
(* isConnected unchanged.                                                  *)
(***************************************************************************)
C19_ErrorKeepsCallsAndConnection ==
    [][handled'.handler = "live-calls-error" =>
          /\ error' = handled'.arg
          /\ isLoading' = FALSE
          /\ clientLiveCalls' = clientLiveCalls
          /\ isConnected' = isConnected]_vars

\* the error arrived while calls were shown: they are still shown
C19_Witness ==
    /\ handled.handler = "live-calls-error"
    /\ error = "Failed to fetch conversations"
    /\ ~isLoading
    /\ clientLiveCalls # << >>
    /\ isConnected

(***************************************************************************)
(* C20: calling refresh() changes none of liveCalls, isConnected,          *)
(* isLoading and error, whether the socket is connected or not; its only   *)
(* effect is to send refresh-live-calls to the server.                     *)
(***************************************************************************)
C20_RefreshChangesNothing ==
    [][handled'.handler = "refresh" =>
          /\ clientLiveCalls' = clientLiveCalls
          /\ isConnected' = isConnected
          /\ isLoading' = isLoading
          /\ error' = error]_vars

(***************************************************************************)
(* C20, amended: while the socket is connected refresh() sends             *)
(* refresh-live-calls and changes none of liveCalls, isConnected,          *)
(* isLoading and error; while it is not connected refresh() sends nothing  *)
(* and sets error to 'Not connected to server', leaving liveCalls,         *)
(* isConnected and isLoading unchanged.                                    *)
(***************************************************************************)
C20_RefreshWhenConnected ==
    [][handled'.handler = "refresh" =>
          /\ clientLiveCalls' = clientLiveCalls
          /\ isConnected' = isConnected
          /\ isLoading' = isLoading
          /\ socketConnected =>
                (clientSent' = "refresh-live-calls" /\ error' = error)
          /\ ~socketConnected =>
                (clientSent' = "none" /\ error' = "Not connected to server")]_vars

\* refresh() was called on a disconnected socket while calls were shown
C20_Witness ==
    /\ handled.handler = "refresh"
    /\ ~socketConnected
    /\ clientSent = "none"
    /\ error = "Not connected to server"
    /\ clientLiveCalls # << >>

\* the page numbers of a list of pages, its ellipsis entries left out
NumbersOf(pages) == SelectSeq(pages, LAMBDA p : p # Ellipsis)

(***************************************************************************)
(* C21: for totalPages >= 1 and 1 <= currentPage <= totalPages, the        *)
(* numbers generatePageNumbers returns are strictly increasing, start with *)
(* 1, end with totalPages and include currentPage and every page within 2  *)
(* of it; an ellipsis stands between two listed numbers exactly when they  *)
(* are not consecutive.                                                    *)
(***************************************************************************)
C21_PageNumbersWellFormed ==
    pageResult.returned =>
        LET pages == pageResult.value
            nums == NumbersOf(pages)
            cur == pageInput.currentPage
            tot == pageInput.totalPages
        IN /\ Len(nums) >= 1
           /\ nums[1] = 1
           /\ nums[Len(nums)] = tot
           /\ \A i \in 1..(Len(nums) - 1) : nums[i] < nums[i + 1]
           /\ \A p \in 1..tot :
                (p - cur <= 2 /\ cur - p <= 2) =>
                    \E i \in 1..Len(nums) : nums[i] = p
           /\ pages[1] # Ellipsis
           /\ pages[Len(pages)] # Ellipsis
           /\ \A i \in 1..(Len(pages) - 1) :
                IF pages[i] # Ellipsis /\ pages[i + 1] # Ellipsis
                THEN pages[i + 1] = pages[i] + 1
                ELSE pages[i] = Ellipsis =>
                        /\ pages[i + 1] # Ellipsis
                        /\ pages[i + 1] > pages[i - 1] + 1

\* the middle page of twenty: an ellipsis on each side
C21_Witness ==
    /\ pageResult.returned
    /\ pageInput = [currentPage |-> 10, totalPages |-> 20]
    /\ pageResult.value = <<1, Ellipsis, 8, 9, 10, 11, 12, Ellipsis, 20>>

InputDigits ==
    SelectSeq(phoneInput,
              LAMBDA ch : ch \in {"0", "1", "2", "3", "4", "5", "6", "7", "8",
                                  "9"})

(***************************************************************************)
(* C23: for every 10-digit national number N, an input whose digits are N, *)
(* or 91 followed by N, is formatted to +91 followed by N, whatever        *)
(* non-digit characters and surrounding whitespace it contains; an input   *)
(* with no digits is an error, not a number.                               *)
(***************************************************************************)
C23_NationalNumberGetsCountryCode ==
    phoneResult.returned =>
        /\ Len(InputDigits) = 10 =>
              phoneResult = ReturnedValue(<<"+", "9", "1">> \o InputDigits)
        /\ (Len(InputDigits) = 12 /\ SubSeq(InputDigits, 1, 2) = <<"9", "1">>) =>
              phoneResult = ReturnedValue(<<"+", "9", "1">>
                                            \o SubSeq(InputDigits, 3, 12))
        /\ Len(InputDigits) = 0 => phoneResult.threw

\* '+(91) 91...' with a separator inside: a number that itself starts with
\* 91, written with its country code
C23_Witness ==
    /\ phoneResult.returned
    /\ Len(phoneInput) > 12
    /\ phoneInput[1] = "+"
    /\ phoneInput[2] = "("
    /\ \E i \in 1..Len(phoneInput) : phoneInput[i] = "-"
    /\ phoneResult.value
          = <<"+", "9", "1", "9", "1", "6", "8", "4", "9", "8", "5", "7", "0">>

\* what the legacy client and the server both report of a call
SharedFields(calls) ==
    [i \in 1..Len(calls) |->
        <<calls[i].id, calls[i].phoneNumber, calls[i].startTime,
          calls[i].duration>>]

C29_SingleTimer ==
    /\ Cardinality(timers) <= 1
    /\ \A t \in timers : t = pollInterval
    /\ pollInterval # NoTimer =>
          /\ StartPolling(pollInterval, timers) =
                [pollInterval |-> pollInterval, timers |-> timers,
                 fetch |-> FALSE]
          /\ StopPolling(pollInterval, timers) =
                [pollInterval |-> NoTimer, timers |-> {}]
    /\ connectedClients = 0 => timers = {} /\ ~ENABLED (\E t \in timers : IntervalTick(t))

\* the second client has joined a service whose timer the first one armed
C29_Witness ==
    /\ connectedClients = 2
    /\ pollInterval # NoTimer
    /\ timers = {pollInterval}

\* this step is an io.emit of live-calls-update that reaches socket s
BroadcastReaches(s) ==
    /\ s \in connected
    /\ resumed'.call.fn = "fetchAndBroadcastLiveCalls"
    /\ emitted'[s].event = "live-calls-update"

(***************************************************************************)
(* C25: in every reachable state previousLiveCalls is the payload of the   *)
(* most recent live-calls-update emitted to all clients, or the empty list *)
(* if none has been emitted; consequently no two consecutive broadcasts    *)
(* carry snapshots with the same ids and the same status per id.           *)
(***************************************************************************)
C25_StoredIsLastBroadcast ==
    /\ [](/\ previousLiveCalls = lastBroadcast.payload
          /\ ~lastBroadcast.sent => previousLiveCalls = << >>)
    /\ [][\A s \in Followed :
            (BroadcastReaches(s) /\ lastBroadcast.sent) =>
                PairsOf(emitted'[s].payload) # PairsOf(lastBroadcast.payload)]_vars

(***************************************************************************)
(* C27: broadcasts never go backwards in upstream time: the list read by   *)
(* the fetch behind a live-calls-update emitted to all clients is not      *)
(* older than the list read by the fetch behind the one emitted before it, *)
(* also when the fetches of overlapping polls complete out of order.       *)
(***************************************************************************)
C27_BroadcastsInUpstreamOrder ==
    [][(lastBroadcast.sent /\ lastBroadcast'.sent)
            => lastBroadcast'.version >= lastBroadcast.version]_vars

\* the (id, status) pairs of the calls the provider's list reports as live
UpstreamPairs ==
    PairsOf(FetchLiveCalls(upstream, ClockStart, ClockStart))

\* every connected client shows the calls the provider reports as live
ClientsAgreeWithUpstream ==
    \A s \in Followed :
        s \in connected => PairsOf(clients[s].liveCalls) = UpstreamPairs

(***************************************************************************)
(* C26: if the upstream set of active calls stops changing, all fetches    *)
(* succeed and no client connects, disconnects or refreshes any more, then *)
(* eventually the snapshot last received by every connected client has the *)
(* ids and the status per id of the upstream active set, also when the     *)
(* response to a per-connection fetch arrives after a later broadcast.     *)
(***************************************************************************)
C26_ClientsConverge == quiet ~> ClientsAgreeWithUpstream

(***************************************************************************)
(* C28: every client that connects and stays connected eventually receives *)
(* a live-calls-update, provided fetches succeed from some point on, also  *)
(* when its own per-connection build failed and the snapshots of later     *)
(* polls do not differ from previousLiveCalls.                             *)
(***************************************************************************)
C28_ClientGetsUpdate ==
    \A s \in Followed : (quiet /\ s \in connected) ~> clients[s].gotUpdate

(***************************************************************************)
(* C30: the error a client shows after the live-calls-error of a failed    *)
(* poll is transient: if the client stays connected and later polls        *)
(* succeed, its error returns to null, also when the snapshots of those    *)
(* polls do not differ from previousLiveCalls.                             *)
(***************************************************************************)
C30_PollErrorIsTransient ==
    \A s \in Followed :
        (/\ quiet
         /\ s \in connected
         /\ clients[s].error # NoError
         /\ clients[s].errorFrom = "scheduler") ~> clients[s].error = NoError

====
